---- MODULE Spec2Model ----
(***************************************************************************)
(* A model of the retrieval-augmented generation core of the medical       *)
(* assistant: the FAISS-backed VectorStore (src/components/vector_store.py)*)
(* the Retriever (src/components/retriever.py) and the RAGPipeline         *)
(* orchestrator (src/core/rag_pipeline.py) with its Generator              *)
(* (src/components/generator.py).                                          *)
(*                                                                         *)
(* Python lists are objects: the store keeps a REFERENCE to the list that  *)
(* create() is given, which the model records as `shared`.  Strings        *)
(* are sequences of one-character strings.  Optional values are <<>>       *)
(* (None) or <<v>>.  Scores and temperatures are integers (hundredths).    *)
(***************************************************************************)
EXTENDS Integers, Sequences, FiniteSets, TLC

---------------------------------------------------------------------------
(* Bounds of the model *)

NDocs == 2           \* distinct Document values the caller can build
MaxDocs == 2         \* cap on the length of any chunk list and of the index
MaxK == 2            \* largest k handed to a search

DocIds == 1..NDocs
Queries == {"q1", "q2"}
Thresholds == {40, 74, 100}
DefaultPath == "data/vector_db/faiss_index"
MissingPath == "data/missing"
Paths == {DefaultPath, MissingPath}

None == <<>>
Some(x) == <<x>>
IsNone(o) == o = <<>>
Val(o) == o[1]

Min(a, b) == IF a < b THEN a ELSE b

---------------------------------------------------------------------------
(* Documents.  A Document is an immutable value (page_content, metadata);  *)
(* the state holds document ids and these operators give their fields.     *)

Rep(c, n) == [i \in 1..n |-> c]

Whitespace == {" ", "\n", "\t"}

Letter(d) == IF d % 2 = 1 THEN "a" ELSE "b"
BodyLen(d) == IF d % 2 = 1 THEN 45 ELSE 111

\* Document.page_content: text with surrounding whitespace that strip() removes
page_content(d) == <<" ", "\n">> \o Rep(Letter(d), BodyLen(d)) \o <<"\n">>

\* Document.metadata: odd documents carry a source, even ones have none
metadata(d) ==
    IF d % 2 = 1 THEN [source |-> <<"d", "o", "c">>] ELSE <<>>

\* dict.get(key, default)
MetaGet(m, key, default) == IF key \in DOMAIN m THEN m[key] ELSE default

\* distance of a document's embedding from the query's embedding (hundredths)
Dist(q, d) == IF q = "q1" THEN (d * 37) % 100 ELSE (d * 61 + 20) % 100

---------------------------------------------------------------------------
VARIABLES
    vector_store,   \* VectorStore.vector_store: None or <<index>>, the index
                    \*   being the sequence of indexed documents
    documents,      \* the elements of the list object VectorStore.documents
    shared,         \* that list object is the caller's own list (create
                    \*   stores the reference it is given)
    disk,           \* path -> None or <<[index, docs]>> (a saved directory)
    call,           \* the last operation called: name, arguments, outcome,
                    \*   return, and the k of every query made to the index
    hist,           \* history: create/add/load succeeded with no delete since
    saved,          \* history: path -> chunk list of the store at the last
                    \*   save to it, None once the directory is removed
    expected        \* history: chunks of the last completed create followed
                    \*   by those of the completed adds since, None if the
                    \*   chunk list was set otherwise

storeState == <<vector_store, documents, shared, disk, hist, saved, expected>>
storeVars == <<storeState, call>>

VARIABLES
    top_k,          \* RAGPipeline.top_k
    temperature,    \* RAGPipeline.temperature
    generator,      \* Generator: model_name, temperature, max_tokens and llm,
                    \*   the configuration its model client was built with
    pc,             \* where the running generate_response call is
    frame,          \* that call's arguments and locals, and its history:
                    \*   exception thrown, retrievals and generations made
    result,         \* what the running or last generate_response call gave
                    \*   its caller, None once another operation is made
    log             \* the change list logged by the last operation

pipeVars == <<top_k, temperature, generator, pc, frame, result, log>>

NoFrame == [query |-> "", temperature |-> None, retrieved |-> <<>>,
            exc |-> None, retrievals |-> <<>>, updates |-> <<>>,
            generations |-> <<>>]

\* an operation on the store or the retriever: made while no
\* generate_response call runs; it leaves the pipeline alone and replaces
\* what the last operation returned
StoreCall ==
    /\ pc = "idle"
    /\ frame' = NoFrame
    /\ result' = None
    /\ log' = <<>>
    /\ UNCHANGED <<top_k, temperature, generator, pc>>

NoCall == [op |-> "init", arg |-> <<>>, outcome |-> "ok", ret |-> <<>>,
           indexCalls |-> <<>>]

Call(op, arg, outcome, ret, indexCalls) ==
    [op |-> op, arg |-> arg, outcome |-> outcome, ret |-> ret,
     indexCalls |-> indexCalls]

\* VectorStore.__init__: no index, a new empty chunk list
StoreInit ==
    /\ vector_store = None
    /\ documents = <<>>
    /\ shared = FALSE
    /\ disk = [p \in Paths |-> None]
    /\ call = NoCall
    /\ hist = FALSE
    /\ saved = [p \in Paths |-> None]
    /\ expected = None

\* VectorStore.get_document_count
get_document_count == IF documents # <<>> THEN Len(documents) ELSE 0

\* number of vectors the nearest-neighbour index holds
IndexSize == IF IsNone(vector_store) THEN 0 ELSE Len(Val(vector_store))

---------------------------------------------------------------------------
(* The list a caller hands to create / add_documents: a list object of its *)
(* own with any elements, or the very object it handed to create before    *)
(* and that the store still holds.                                         *)

MaxListLen == 1

ListValues(D) == UNION {[1..n -> D] : n \in 0..MaxListLen}

ListArgsOf(D) ==
    [kind : {"new"}, elems : ListValues(D)] \cup {[kind |-> "same", elems |-> <<>>]}

ListArgs == ListArgsOf(DocIds)

\* The store never reads a Document: it embeds, appends, pickles and counts.
\* Two distinct documents tell every chunk list apart by content and order.
StoreDocs == {1, 2}
StoreListArgs == ListArgsOf(StoreDocs)

ArgOk(a) == a.kind = "same" => shared

Elems(a) == IF a.kind = "same" THEN documents ELSE a.elems

---------------------------------------------------------------------------
(* VectorStore: create, add_documents, save, load, delete *)

EmptyInput == "ValueError: No documents provided for vector store creation"

\* FAISS.from_documents(documents, embeddings): embeds a copy of every chunk
FAISS_from_documents(docs) == docs

\* FAISS.add_documents(documents): appends the new vectors to the index
FAISS_add_documents(index, docs) == index \o docs

\* the empty-list check left out
create_rejects_never(docs) == FALSE

\* `if not documents` of create
create_rejects(docs) == docs = <<>>

\* VectorStore.create(documents), called as op.  embedFails: embedding raises.
createEffect(op, a, embedFails) ==
    IF create_rejects(Elems(a))
    THEN /\ call' = Call(op, a, EmptyInput, <<>>, <<>>)
         /\ UNCHANGED <<vector_store, documents, shared, hist, expected>>
    ELSE /\ documents' = Elems(a)
         /\ shared' = TRUE
         /\ IF embedFails
            THEN /\ call' = Call(op, a, "EmbeddingError", <<>>, <<>>)
                 /\ UNCHANGED <<vector_store, hist, expected>>
            ELSE /\ vector_store' = Some(FAISS_from_documents(Elems(a)))
                 /\ call' = Call(op, a, "ok", <<>>, <<>>)
                 /\ hist' = TRUE
                 /\ expected' = Some(Elems(a))

create(a, embedFails) ==
    /\ StoreCall
    /\ ArgOk(a)
    /\ createEffect("create", a, embedFails)
    /\ UNCHANGED <<disk, saved>>

\* VectorStore.add_documents(documents)
add_documents(a, embedFails) ==
    /\ StoreCall
    /\ ArgOk(a)
    /\ IF IsNone(vector_store)
       THEN createEffect("add_documents", a, embedFails)
       ELSE IF embedFails
            THEN /\ call' = Call("add_documents", a, "EmbeddingError", <<>>, <<>>)
                 /\ UNCHANGED <<vector_store, documents, shared, hist, expected>>
            ELSE /\ Len(Val(vector_store)) + Len(Elems(a)) <= MaxDocs
                 /\ Len(documents) + Len(Elems(a)) <= MaxDocs
                 /\ vector_store' = Some(FAISS_add_documents(Val(vector_store), Elems(a)))
                 /\ documents' = documents \o Elems(a)
                 /\ call' = Call("add_documents", a, "ok", <<>>, <<>>)
                 /\ hist' = TRUE
                 /\ expected' = IF IsNone(expected) THEN None
                                ELSE Some(Val(expected) \o Elems(a))
                 /\ UNCHANGED shared
    /\ UNCHANGED <<disk, saved>>

\* `path or os.path.join(self.store_path, "faiss_index")`
PathOr(pathOpt) == IF IsNone(pathOpt) THEN DefaultPath ELSE Val(pathOpt)

\* paths handed to save and to load; nothing is ever saved at MissingPath
SaveArgs == {None, Some(DefaultPath)}
LoadArgs == {None, Some(DefaultPath), Some(MissingPath)}

\* what save writes: the index files and documents.pkl
save_written == [index |-> Val(vector_store), docs |-> Some(documents)]

\* VectorStore.save(path)
save(pathOpt) ==
    /\ StoreCall
    /\ IF IsNone(vector_store)
       THEN /\ call' = Call("save", pathOpt, "ValueError: No vector store to save.", <<>>, <<>>)
            /\ UNCHANGED <<disk, saved>>
       ELSE /\ disk' = [disk EXCEPT ![PathOr(pathOpt)] = Some(save_written)]
            /\ saved' = [saved EXCEPT ![PathOr(pathOpt)] = Some(documents)]
            /\ call' = Call("save", pathOpt, "ok", <<>>, <<>>)
    /\ UNCHANGED <<vector_store, documents, shared, hist, expected>>

\* os.path.exists(path)
path_exists(p) == ~IsNone(disk[p])

\* VectorStore.save(path) in which opening documents.pkl for writing raises:
\* save_local has written the index files, and the directory keeps the
\* documents.pkl it had, if any
save_dump_fails(pathOpt) ==
    /\ StoreCall
    /\ ~IsNone(vector_store)
    /\ LET p == PathOr(pathOpt)
           old == IF path_exists(p) THEN Val(disk[p]).docs ELSE None
       IN disk' = [disk EXCEPT ![p] = Some([index |-> Val(vector_store),
                                            docs |-> old])]
    /\ call' = Call("save", pathOpt, "OSError", <<>>, <<>>)
    /\ UNCHANGED <<vector_store, documents, shared, hist, expected, saved>>

\* documents.pkl not read back: the chunk list in memory is kept
load_documents_stale(dir) == documents

\* the chunk list load installs: the unpickled documents.pkl
load_documents(dir) == Val(dir.docs)

\* a load that resets the store when the path is missing
load_resets(pathOpt) ==
    /\ StoreCall
    /\ IF ~path_exists(PathOr(pathOpt))
       THEN /\ call' = Call("load", pathOpt, "no vector store found", <<>>, <<>>)
            /\ vector_store' = None
            /\ documents' = <<>>
            /\ shared' = FALSE
            /\ expected' = None
            /\ hist' = FALSE
       ELSE LET dir == Val(disk[PathOr(pathOpt)]) IN
            /\ vector_store' = Some(dir.index)
            /\ documents' = load_documents(dir)
            /\ shared' = FALSE
            /\ expected' = None
            /\ call' = Call("load", pathOpt, "ok", <<>>, <<>>)
            /\ hist' = TRUE
    /\ UNCHANGED <<disk, saved>>

\* VectorStore.load(path)
load(pathOpt) ==
    /\ StoreCall
    /\ IF ~path_exists(PathOr(pathOpt))
       THEN /\ call' = Call("load", pathOpt, "no vector store found", <<>>, <<>>)
            /\ UNCHANGED <<vector_store, documents, shared, hist, expected>>
       ELSE LET dir == Val(disk[PathOr(pathOpt)]) IN
            /\ vector_store' = Some(dir.index)
            /\ IF ~IsNone(dir.docs)
               THEN /\ documents' = load_documents(dir)
                    /\ shared' = FALSE
                    /\ expected' = None
               ELSE UNCHANGED <<documents, shared, expected>>
            /\ call' = Call("load", pathOpt, "ok", <<>>, <<>>)
            /\ hist' = TRUE
    /\ UNCHANGED <<disk, saved>>

\* the directory delete removes
delete_path == DefaultPath

\* a delete that clears the memory but leaves the saved directory in place
delete_keeps_files ==
    /\ StoreCall
    /\ vector_store' = None
    /\ documents' = <<>>
    /\ shared' = FALSE
    /\ call' = Call("delete", <<>>, "ok", <<>>, <<>>)
    /\ hist' = FALSE
    /\ expected' = None
    /\ UNCHANGED <<disk, saved>>

\* a delete that removes the directory but keeps the index in memory
delete_keeps_index ==
    /\ StoreCall
    /\ documents' = <<>>
    /\ shared' = FALSE
    /\ disk' = [disk EXCEPT ![delete_path] = None]
    /\ saved' = [saved EXCEPT ![delete_path] = None]
    /\ call' = Call("delete", <<>>, "ok", <<>>, <<>>)
    /\ hist' = FALSE
    /\ expected' = None
    /\ UNCHANGED vector_store

\* VectorStore.delete()
delete ==
    /\ StoreCall
    /\ vector_store' = None
    /\ documents' = <<>>
    /\ shared' = FALSE
    /\ disk' = [disk EXCEPT ![delete_path] = None]
    /\ saved' = [saved EXCEPT ![delete_path] = None]
    /\ call' = Call("delete", <<>>, "ok", <<>>, <<>>)
    /\ hist' = FALSE
    /\ expected' = None

\* a new VectorStore object over the same directory (VectorStore.__init__)
VectorStoreNew ==
    /\ StoreCall
    /\ call.op # "init"
    /\ vector_store' = None
    /\ documents' = <<>>
    /\ shared' = FALSE
    /\ call' = NoCall
    /\ hist' = FALSE
    /\ expected' = None
    /\ UNCHANGED <<disk, saved>>

---------------------------------------------------------------------------
(* Retriever: similarity_search, similarity_search_with_threshold,         *)
(* get_relevant_context                                                    *)

\* FAISS.similarity_search_with_score(query, k): the k nearest indexed
\* documents with their distances, nearest first (ties in index order)
RECURSIVE Nearest(_, _, _, _)
Nearest(index, q, k, taken) ==
    IF k <= 0 \/ taken = DOMAIN index
    THEN <<>>
    ELSE LET rest == DOMAIN index \ taken
             best == CHOOSE i \in rest : \A j \in rest :
                        \/ Dist(q, index[i]) < Dist(q, index[j])
                        \/ Dist(q, index[i]) = Dist(q, index[j]) /\ i <= j
         IN  <<[doc |-> index[best], score |-> Dist(q, index[best])]>>
                 \o Nearest(index, q, k - 1, taken \cup {best})

similarity_search_with_score(index, q, k) == Nearest(index, q, k, {})

\* `if not vector_store` of similarity_search
not_initialized == IsNone(vector_store)

NotInitialized == "ValueError: Vector store not initialized."

\* Retriever.similarity_search(query, k): outcome, returned list, and the
\* k of every query made to the index.  indexFails: the index call raises.
similarity_search(q, k, indexFails) ==
    IF not_initialized
    THEN [outcome |-> NotInitialized, ret |-> <<>>, indexCalls |-> <<>>]
    ELSE IF indexFails
         THEN [outcome |-> "IndexError", ret |-> <<>>, indexCalls |-> <<k>>]
         ELSE [outcome |-> "ok",
               ret |-> similarity_search_with_score(Val(vector_store), q, k),
               indexCalls |-> <<k>>]

\* s[:n] of Python for n >= 0
Slice(s, n) == SubSeq(s, 1, Min(n, Len(s)))

\* the k handed to similarity_search by similarity_search_with_threshold
threshold_fetch(k) == k * 2

\* the comparison made strict
under_threshold_strict(score, t) == score < t

\* `score <= threshold`
under_threshold(score, t) == score <= t

\* [(doc, score) for doc, score in results if score <= threshold][:k]
threshold_filter(results, k, t) ==
    Slice(SelectSeq(results, LAMBDA x : under_threshold(x.score, t)), k)

\* Retriever.similarity_search_with_threshold(query, k, threshold)
similarity_search_with_threshold(q, k, t, indexFails) ==
    LET s == similarity_search(q, threshold_fetch(k), indexFails) IN
    IF s.outcome # "ok" THEN s
    ELSE [s EXCEPT !.ret = threshold_filter(s.ret, k, t)]

RECURSIVE lstrip(_)
lstrip(s) == IF s # <<>> /\ Head(s) \in Whitespace THEN lstrip(Tail(s)) ELSE s

RECURSIVE rstrip(_)
rstrip(s) ==
    IF s # <<>> /\ s[Len(s)] \in Whitespace
    THEN rstrip(SubSeq(s, 1, Len(s) - 1)) ELSE s

\* str.strip()
strip(s) == rstrip(lstrip(s))

Unknown == <<"U", "n", "k", "n", "o", "w", "n">>

\* f"[Source: {source}]\n{content}\n"
block(d) ==
    <<"[", "S", "o", "u", "r", "c", "e", ":", " ">>
        \o MetaGet(metadata(d), "source", Unknown) \o <<"]", "\n">>
        \o strip(page_content(d)) \o <<"\n">>

\* the block of every document, computed once
Blocks == [d \in 1..(NDocs + 1) |-> block(d)]

TruncationMargin == 100
Marker == <<".", ".", ".">>

\* the loop with `continue` in place of `break`: a block that does not fit
\* is passed over and later blocks are still tried
RECURSIVE context_loop_continue(_, _, _, _, _)
context_loop_continue(results, i, context_parts, total_len, max_context_length) ==
    IF i > Len(results) THEN context_parts
    ELSE LET b == Blocks[results[i].doc] IN
         IF total_len + Len(b) > max_context_length
         THEN context_loop_continue(results, i + 1, context_parts,
                                    total_len, max_context_length)
         ELSE context_loop_continue(results, i + 1, Append(context_parts, b),
                                    total_len + Len(b), max_context_length)

\* the loop of get_relevant_context from result i on: the final context_parts
RECURSIVE context_loop(_, _, _, _, _)
context_loop(results, i, context_parts, total_len, max_context_length) ==
    IF i > Len(results) THEN context_parts
    ELSE LET b == Blocks[results[i].doc] IN
         IF total_len + Len(b) > max_context_length
         THEN LET space_left == max_context_length - total_len IN
              IF space_left > TruncationMargin
              THEN Append(context_parts, Slice(b, space_left - 3) \o Marker)
              ELSE context_parts
         ELSE context_loop(results, i + 1, Append(context_parts, b),
                           total_len + Len(b), max_context_length)

\* "\n".join(parts)
RECURSIVE join(_, _)
join(sep, parts) ==
    IF parts = <<>> THEN <<>>
    ELSE IF Len(parts) = 1 THEN parts[1]
    ELSE parts[1] \o sep \o join(sep, Tail(parts))

\* Retriever.get_relevant_context(query, k, max_context_length)
get_relevant_context(q, k, max_context_length, indexFails) ==
    LET s == similarity_search(q, k, indexFails) IN
    IF s.outcome # "ok" THEN s
    ELSE [s EXCEPT !.ret =
            join(<<"\n">>, context_loop(s.ret, 1, <<>>, 0, max_context_length))]

ContextLengths == {0, 60, 120, 150, 170, 4000}

\* a call of one of the three retrieval operations; the store is only read
Retrieve(op, arg, r) ==
    /\ StoreCall
    /\ call' = Call(op, arg, r.outcome, r.ret, r.indexCalls)
    /\ UNCHANGED <<vector_store, documents, shared, disk, hist, saved, expected>>

SimilaritySearch(q, k, indexFails) ==
    Retrieve("similarity_search", <<q, k>>, similarity_search(q, k, indexFails))

SimilaritySearchWithThreshold(q, k, t, indexFails) ==
    Retrieve("similarity_search_with_threshold", <<q, k, t>>,
             similarity_search_with_threshold(q, k, t, indexFails))

GetRelevantContext(q, k, m, indexFails) ==
    Retrieve("get_relevant_context", <<q, k, m>>,
             get_relevant_context(q, k, m, indexFails))

---------------------------------------------------------------------------
(* Generator and RAGPipeline (src/core/rag_pipeline.py)                    *)

Temps == {0, 10, 70}
TempArgs == {None} \cup {Some(t) : t \in Temps}

DefaultTemperature == 10
DefaultRetrievalK == 3
DefaultMaxTokens == 1000
DefaultModel == "command-r-plus"

\* Generator._load_llm: ChatCohere(model, temperature, max_tokens)
load_llm(g) == [model |-> g.model_name, temperature |-> g.temperature,
                max_tokens |-> g.max_tokens]

\* RAGPipeline.__init__ and Generator.__init__
PipelineInit ==
    /\ top_k = DefaultRetrievalK
    /\ temperature = DefaultTemperature
    /\ generator = LET g == [model_name |-> DefaultModel,
                             temperature |-> DefaultTemperature,
                             max_tokens |-> DefaultMaxTokens]
                   IN [model_name |-> g.model_name, temperature |-> g.temperature,
                       max_tokens |-> g.max_tokens, llm |-> load_llm(g)]
    /\ pc = "idle"
    /\ frame = NoFrame
    /\ result = None
    /\ log = <<>>

\* Python truthiness of an Optional number: None and 0 are false
Truthy(o) == ~IsNone(o) /\ Val(o) # 0

\* Generator.update(temperature=t) up to the rebuilding of the client
update_fields(g, t) == IF ~IsNone(t) THEN [g EXCEPT !.temperature = Val(t)] ELSE g

\* Generator.update(temperature=t).  loadFails: _load_llm raises.
Generator_update(g, t, loadFails) ==
    LET g1 == update_fields(g, t) IN
    IF loadFails THEN g1 ELSE [g1 EXCEPT !.llm = load_llm(g1)]

\* RAGPipeline._prepare_context: one numbered part per retrieved document
prepare_context(docs) ==
    [i \in DOMAIN docs |->
        [n |-> i,
         source |-> MetaGet(metadata(docs[i].doc), "source", Unknown),
         score |-> docs[i].score,
         text |-> docs[i].doc]]

Canned == "I couldn't find any relevant information..."

\* the three dictionaries generate_response returns (times are not modelled)
NoResultsResult ==
    [answer |-> Canned, sources |-> <<>>,
     metadata |-> [retrieved_docs |-> 0, retrieval_time |-> 0,
                   generation_time |-> 0, total_time |-> 0]]

\* a result that reports the number of chunks asked for
DoneResult_counts_k(answer, retrieved, context, g, t) ==
    [answer |-> answer, sources |-> retrieved, context |-> context,
     metadata |-> [retrieved_docs |-> top_k, retrieval_time |-> 0,
                   generation_time |-> 0, total_time |-> 0,
                   model |-> g.model_name,
                   temperature |-> IF Truthy(t) THEN Val(t) ELSE g.temperature]]

DoneResult(answer, retrieved, context, g, t) ==
    [answer |-> answer, sources |-> retrieved, context |-> context,
     metadata |-> [retrieved_docs |-> Len(retrieved), retrieval_time |-> 0,
                   generation_time |-> 0, total_time |-> 0,
                   model |-> g.model_name,
                   temperature |-> IF Truthy(t) THEN Val(t) ELSE g.temperature]]

FailedResult(msg) ==
    [answer |-> <<"I encountered an error: ", msg>>, sources |-> <<>>,
     metadata |-> [error |-> msg, total_time |-> 0]]

\* a try block that starts after the Retriever is constructed
in_try_late(point) == point \in {"similarity_search", "llm_load", "llm_invoke"}

\* the statements of generate_response that lie inside its try block
in_try(point) ==
    point \in {"retriever_init", "similarity_search", "llm_load", "llm_invoke"}

\* an exception thrown at `point`: caught and turned into a result, or not
Thrown(point, msg) ==
    IF in_try(point) THEN FailedResult(msg) ELSE [raised |-> msg]

\* generate_response is called: start = time.time()
GenerateResponse_Call(q, t) ==
    /\ pc = "idle"
    /\ pc' = "retrieving"
    /\ frame' = [NoFrame EXCEPT !.query = q, !.temperature = t]
    /\ result' = None
    /\ log' = <<>>
    /\ call' = Call("generate_response", <<q, t>>, "ok", <<>>, <<>>)
    /\ UNCHANGED <<top_k, temperature, generator>>
    /\ UNCHANGED storeState

\* the empty-retrieval check left out
no_results_never(retrieved) == FALSE

\* `if not retrieved`
no_results(retrieved) == retrieved = <<>>

\* Retriever(store_manager=vectorstore); similarity_search(query, k=top_k)
\* and the `if not retrieved` return.  point: where an exception is thrown.
GenerateResponse_Retrieve(point) ==
    /\ pc = "retrieving"
    /\ IF point = "retriever_init"
       THEN /\ frame' = [frame EXCEPT !.exc = Some("EmbeddingModelError")]
            /\ result' = Some(Thrown(point, "EmbeddingModelError"))
            /\ pc' = "idle"
       ELSE LET s == similarity_search(frame.query, top_k, point = "similarity_search")
                f == [frame EXCEPT !.retrievals = Append(@, top_k)]
            IN IF s.outcome # "ok"
               THEN /\ frame' = [f EXCEPT !.exc = Some(s.outcome)]
                    /\ result' = Some(Thrown("similarity_search", s.outcome))
                    /\ pc' = "idle"
               ELSE /\ frame' = [f EXCEPT !.retrieved = s.ret]
                    /\ IF no_results(s.ret)
                       THEN /\ result' = Some(NoResultsResult)
                            /\ pc' = "idle"
                       ELSE /\ result' = None
                            /\ pc' = "generating"
    /\ UNCHANGED <<top_k, temperature, generator, log>>
    /\ UNCHANGED storeVars

Answers == {"answer"}

\* `if temperature and temperature != self.generator.temperature`
overrides(t, g) == Truthy(t) /\ Val(t) # g.temperature

\* the temperature handed to Generator.update for an overriding call
override_value(t) == Some(temperature)

\* _prepare_context, the optional Generator.update, Generator.generate and
\* the return of the result
GenerateResponse_Generate(point, answer) ==
    /\ pc = "generating"
    /\ point = "llm_load" => overrides(frame.temperature, generator)
    /\ LET context == prepare_context(frame.retrieved)
           upd == IF overrides(frame.temperature, generator)
                  THEN <<override_value(frame.temperature)>> ELSE <<>>
           g == IF overrides(frame.temperature, generator)
                THEN Generator_update(generator, override_value(frame.temperature),
                                      point = "llm_load")
                ELSE generator
       IN /\ generator' = g
          /\ IF point = "llm_load"
             THEN /\ frame' = [frame EXCEPT !.exc = Some("ClientError"),
                                            !.updates = @ \o upd]
                  /\ result' = Some(Thrown(point, "ClientError"))
             ELSE IF point = "llm_invoke"
             THEN /\ frame' = [frame EXCEPT !.exc = Some("GenerationError"),
                                            !.updates = @ \o upd,
                                            !.generations = Append(@, g.llm)]
                  /\ result' = Some(Thrown(point, "GenerationError"))
             ELSE /\ frame' = [frame EXCEPT !.updates = @ \o upd,
                                            !.generations = Append(@, g.llm)]
                  /\ result' = Some(DoneResult(answer, frame.retrieved, context,
                                               g, frame.temperature))
    /\ pc' = "idle"
    /\ UNCHANGED <<top_k, temperature, log>>
    /\ UNCHANGED storeVars

KArgs == {None} \cup {Some(k) : k \in 0..MaxK}

\* an update_settings without the `!= self.temperature` / `!= self.top_k`
\* tests: every value handed in is assigned and logged
update_settings_unconditional(t, k) ==
    /\ pc = "idle"
    /\ temperature' = IF ~IsNone(t) THEN Val(t) ELSE temperature
    /\ top_k' = IF ~IsNone(k) THEN Val(k) ELSE top_k
    /\ log' = (IF ~IsNone(t) THEN <<<<"temperature", Val(t)>>>> ELSE <<>>)
              \o (IF ~IsNone(k) THEN <<<<"retrieval_k", Val(k)>>>> ELSE <<>>)
    /\ frame' = NoFrame
    /\ result' = None
    /\ call' = Call("update_settings", <<t, k>>, "ok", <<>>, <<>>)
    /\ UNCHANGED <<generator, pc>>
    /\ UNCHANGED storeState

\* RAGPipeline.update_settings(temperature, k)
update_settings(t, k) ==
    /\ pc = "idle"
    /\ LET tChanged == ~IsNone(t) /\ Val(t) # temperature
           kChanged == ~IsNone(k) /\ Val(k) # top_k
       IN /\ temperature' = IF tChanged THEN Val(t) ELSE temperature
          /\ top_k' = IF kChanged THEN Val(k) ELSE top_k
          /\ log' = (IF tChanged THEN <<<<"temperature", Val(t)>>>> ELSE <<>>)
                    \o (IF kChanged THEN <<<<"retrieval_k", Val(k)>>>> ELSE <<>>)
    /\ frame' = NoFrame
    /\ result' = None
    /\ call' = Call("update_settings", <<t, k>>, "ok", <<>>, <<>>)
    /\ UNCHANGED <<generator, pc>>
    /\ UNCHANGED storeState

---------------------------------------------------------------------------
(* DataProcessor (src/components/data_processor.py): the text splitter it  *)
(* builds, chunk_documents, process_document, process_multiple_documents   *)

\* a separator list that does not end with ""
Separators_no_char == << <<"\n", "\n">>, <<"\n">>, <<" ">> >>

\* separators=["\n\n", "\n", " ", ""]
Separators == << <<"\n", "\n">>, <<"\n">>, <<" ">>, <<>> >>

\* sep occurs in s at position i
Occurs(s, sep, i) ==
    i + Len(sep) - 1 <= Len(s) /\ SubSeq(s, i, i + Len(sep) - 1) = sep

\* re.search(sep, s[i:]): position of the leftmost occurrence, 0 if none
RECURSIVE Find(_, _, _)
Find(s, sep, i) ==
    IF i + Len(sep) - 1 > Len(s) THEN 0
    ELSE IF Occurs(s, sep, i) THEN i
    ELSE Find(s, sep, i + 1)

\* re.split(f"({sep})", s): text, sep, text, ..., sep, text
RECURSIVE re_split(_, _)
re_split(s, sep) ==
    LET i == Find(s, sep, 1) IN
    IF i = 0 THEN <<s>>
    ELSE <<SubSeq(s, 1, i - 1), sep>>
             \o re_split(SubSeq(s, i + Len(sep), Len(s)), sep)

\* keep_separator=True: every separator is glued to the front of the text
\* that follows it
RECURSIVE glue(_, _)
glue(parts, i) ==
    IF i + 1 > Len(parts) THEN <<>>
    ELSE <<parts[i] \o parts[i + 1]>> \o glue(parts, i + 2)

\* _split_text_with_regex(text, separator, keep_separator=True)
split_text_with_regex(text, sep) ==
    LET splits == IF sep = <<>>
                  THEN [i \in 1..Len(text) |-> <<text[i]>>]
                  ELSE LET parts == re_split(text, sep)
                       IN <<parts[1]>> \o glue(parts, 2)
    IN SelectSeq(splits, LAMBDA x : x # <<>>)

\* "".join(docs)
RECURSIVE concat(_)
concat(parts) == IF parts = <<>> THEN <<>> ELSE Head(parts) \o concat(Tail(parts))

\* _join_docs: the stripped concatenation as a one-element list, [] if it
\* is empty (None)
join_docs(current_doc) ==
    LET text == strip(concat(current_doc)) IN
    IF text = <<>> THEN <<>> ELSE <<text>>

\* the while loop of _merge_splits: drops splits from the front of
\* current_doc until the overlap fits; gives current_doc and total
RECURSIVE drop_overlap(_, _, _, _, _)
drop_overlap(current_doc, total, len, chunk_size, chunk_overlap) ==
    IF total > chunk_overlap \/ (total + len > chunk_size /\ total > 0)
    THEN drop_overlap(Tail(current_doc), total - Len(Head(current_doc)), len,
                      chunk_size, chunk_overlap)
    ELSE <<current_doc, total>>

\* the for loop of _merge_splits from split i on (the separator is "")
RECURSIVE merge_loop(_, _, _, _, _, _, _)
merge_loop(splits, i, docs, current_doc, total, chunk_size, chunk_overlap) ==
    IF i > Len(splits) THEN docs \o join_docs(current_doc)
    ELSE LET d == splits[i] IN
         IF total + Len(d) > chunk_size /\ current_doc # <<>>
         THEN LET kept == drop_overlap(current_doc, total, Len(d),
                                       chunk_size, chunk_overlap)
              IN merge_loop(splits, i + 1, docs \o join_docs(current_doc),
                            Append(kept[1], d), kept[2] + Len(d),
                            chunk_size, chunk_overlap)
         ELSE merge_loop(splits, i + 1, docs, Append(current_doc, d),
                         total + Len(d), chunk_size, chunk_overlap)

\* _merge_splits(splits, separator="")
merge_splits(splits, chunk_size, chunk_overlap) ==
    merge_loop(splits, 1, <<>>, <<>>, 0, chunk_size, chunk_overlap)

\* the separator _split_text picks: the first that is "" or occurs in text
RECURSIVE pick_separator(_, _, _)
pick_separator(text, separators, i) ==
    IF i >= Len(separators) THEN Len(separators)
    ELSE IF separators[i] = <<>> \/ Find(text, separators[i], 1) # 0 THEN i
    ELSE pick_separator(text, separators, i + 1)

\* the size test made on a split before it is kept for merging
fits(s, chunk_size) == Len(s) < chunk_size

RECURSIVE split_text(_, _, _, _)
RECURSIVE split_loop(_, _, _, _, _, _, _)

\* the for loop of _split_text from split i on
split_loop(splits, i, good_splits, final_chunks, new_separators, chunk_size, chunk_overlap) ==
    LET merged == IF good_splits # <<>>
                  THEN merge_splits(good_splits, chunk_size, chunk_overlap)
                  ELSE <<>>
    IN IF i > Len(splits) THEN final_chunks \o merged
       ELSE IF fits(splits[i], chunk_size)
       THEN split_loop(splits, i + 1, Append(good_splits, splits[i]),
                       final_chunks, new_separators, chunk_size, chunk_overlap)
       ELSE LET other == IF new_separators = <<>> THEN <<splits[i]>>
                         ELSE split_text(splits[i], new_separators,
                                         chunk_size, chunk_overlap)
            IN split_loop(splits, i + 1, <<>>, final_chunks \o merged \o other,
                          new_separators, chunk_size, chunk_overlap)

\* RecursiveCharacterTextSplitter._split_text(text, separators)
split_text(text, separators, chunk_size, chunk_overlap) ==
    LET k == pick_separator(text, separators, 1)
        separator == separators[k]
        new_separators == IF separator = <<>> THEN <<>>
                          ELSE SubSeq(separators, k + 1, Len(separators))
    IN split_loop(split_text_with_regex(text, separator), 1, <<>>, <<>>,
                  new_separators, chunk_size, chunk_overlap)

\* RecursiveCharacterTextSplitter.split_documents: the chunks of every
\* document in order, each with a deep copy of its document's metadata
RECURSIVE split_documents(_, _, _)
split_documents(docs, chunk_size, chunk_overlap) ==
    IF docs = <<>> THEN <<>>
    ELSE LET texts == split_text(Head(docs).page_content, Separators,
                                 chunk_size, chunk_overlap)
         IN [i \in DOMAIN texts |->
                [page_content |-> texts[i], metadata |-> Head(docs).metadata]]
            \o split_documents(Tail(docs), chunk_size, chunk_overlap)

\* DataProcessor.chunk_documents(documents)
chunk_documents(docs, chunk_size, chunk_overlap) ==
    split_documents(docs, chunk_size, chunk_overlap)

\* A file: its path (directory, stem and extension of the name) and what the
\* loader finds there (the text of each page, or nothing it can read)
Extensions == {".txt", ".TXT", ".pdf", ".docx"}

\* str.lower() on an extension
lower(ext) == IF ext = ".TXT" THEN ".txt" ELSE ext

\* os.path.basename(file_path)
basename(path) == <<path.stem, path.ext>>

\* os.path.splitext(file_path)[1]
splitext(path) == path.ext

Unsupported(ext) == <<"ValueError: Unsupported file type: ", ext>>

\* DataLoader.load(file_path): one Document per page, or the exception
DataLoader_load(file) ==
    LET file_extension == lower(splitext(file.path)) IN
    IF file_extension \notin {".pdf", ".txt"}
    THEN [outcome |-> Unsupported(file_extension), ret |-> <<>>]
    ELSE IF ~file.readable
    THEN [outcome |-> "LoaderError", ret |-> <<>>]
    ELSE [outcome |-> "ok",
          ret |-> [i \in DOMAIN file.pages |->
                      [page_content |-> file.pages[i],
                       metadata |-> [source |-> file.path, page |-> i - 1]]]]

\* enumerate(chunks) counting from 1
chunk_index_from_one(i) == i

\* enumerate(chunks): the index of the i-th chunk
chunk_index(i) == i - 1

\* doc.metadata['source'] = source; doc.metadata['file_path'] = file_path
tag_source(doc, source, file_path) ==
    [page_content |-> doc.page_content,
     metadata |-> [source |-> source, page |-> doc.metadata.page,
                   file_path |-> file_path]]

\* chunk.metadata['chunk_id'] = i; chunk.metadata['chunk_size'] = len(...)
tag_chunk(chunk, i) ==
    [page_content |-> chunk.page_content,
     metadata |-> [source |-> chunk.metadata.source,
                   chunk_size |-> Len(chunk.page_content),
                   page |-> chunk.metadata.page,
                   file_path |-> chunk.metadata.file_path,
                   chunk_id |-> chunk_index(i)]]

\* DataProcessor.process_document(file_path, source_name)
process_document(file, source_name, chunk_size, chunk_overlap) ==
    LET loaded == DataLoader_load(file) IN
    IF loaded.outcome # "ok" THEN loaded
    ELSE LET source == IF IsNone(source_name) THEN basename(file.path)
                       ELSE Val(source_name)
             documents_ == [i \in DOMAIN loaded.ret |->
                              tag_source(loaded.ret[i], source, file.path)]
             chunks == chunk_documents(documents_, chunk_size, chunk_overlap)
         IN [outcome |-> "ok",
             ret |-> [i \in DOMAIN chunks |-> tag_chunk(chunks[i], i)]]

\* an exception escapes the for loop
isolated_never(exc) == FALSE

\* `except Exception` inside the for loop of process_multiple_documents
isolated(exc) == TRUE

\* the for loop of process_multiple_documents from file i on
RECURSIVE batch_loop(_, _, _, _, _)
batch_loop(file_paths, i, all_chunks, chunk_size, chunk_overlap) ==
    IF i > Len(file_paths) THEN [outcome |-> "ok", ret |-> all_chunks]
    ELSE LET r == process_document(file_paths[i], None, chunk_size, chunk_overlap)
         IN IF r.outcome = "ok"
            THEN batch_loop(file_paths, i + 1, all_chunks \o r.ret,
                            chunk_size, chunk_overlap)
            ELSE IF isolated(r.outcome)
            THEN batch_loop(file_paths, i + 1, all_chunks,
                            chunk_size, chunk_overlap)
            ELSE [outcome |-> r.outcome, ret |-> <<>>]

\* DataProcessor.process_multiple_documents(file_paths)
process_multiple_documents(file_paths, chunk_size, chunk_overlap) ==
    batch_loop(file_paths, 1, <<>>, chunk_size, chunk_overlap)

\* Inputs of the processor
MaxTextLen == 4      \* longest text handed to chunk_documents
MaxChunkSize == 3    \* largest chunk_size of a DataProcessor
MaxPages == 2        \* most pages of a file
MaxFiles == 2        \* most files of a batch

Alphabet == {"a", " ", "\n"}
Texts == UNION {[1..n -> Alphabet] : n \in 0..MaxTextLen}

\* DataProcessor(chunk_size, chunk_overlap): the splitter's constructor
\* rejects an overlap larger than the chunk size
ProcessorArgs ==
    {<<cs, co>> : cs \in 1..MaxChunkSize, co \in 0..MaxChunkSize} \cap
    {x \in (0..MaxChunkSize) \X (0..MaxChunkSize) : x[2] <= x[1]}

PageTexts == {<<>>, <<"a", " ", "b">>, <<"a", "b", "\n", "\n", "b", " ", "a">>}

Files ==
    {f \in [path : [dir : {"docs"}, ext : Extensions, stem : {"f"}],
            readable : BOOLEAN,
            pages : UNION {[1..n -> PageTexts] : n \in 0..MaxPages}] :
        lower(f.path.ext) = ".txt" => Len(f.pages) = 1}

\* the files of a batch: a text file, a two-page PDF, an empty text file, a
\* file of an unsupported type and a PDF the loader cannot read
Fixtures ==
    {[path |-> [dir |-> "docs", ext |-> ".txt", stem |-> "notes"],
      readable |-> TRUE, pages |-> << <<"a", " ", "b">> >>],
     [path |-> [dir |-> "docs", ext |-> ".pdf", stem |-> "paper"],
      readable |-> TRUE,
      pages |-> << <<"a", "b", "\n", "\n", "b", " ", "a">>, <<"a", " ", "b">> >>],
     [path |-> [dir |-> "docs", ext |-> ".txt", stem |-> "blank"],
      readable |-> TRUE, pages |-> << <<>> >>],
     [path |-> [dir |-> "docs", ext |-> ".docx", stem |-> "letter"],
      readable |-> TRUE, pages |-> << <<"a", " ", "b">> >>],
     [path |-> [dir |-> "docs", ext |-> ".pdf", stem |-> "scan"],
      readable |-> FALSE, pages |-> <<>>]}

Batches == UNION {[1..n -> Fixtures] : n \in 0..MaxFiles}

\* a call of one of the processor's operations on a new session. The
\* processor keeps nothing between calls and the store is not involved, so
\* the first call of a session shows every result a later call can give.
Process(op, arg, r) ==
    /\ call = NoCall
    /\ StoreCall
    /\ call' = Call(op, arg, r.outcome, r.ret, <<>>)
    /\ UNCHANGED <<vector_store, documents, shared, disk, hist, saved, expected>>

ChunkDocuments(text, p) ==
    Process("chunk_documents", <<p, text>>,
            [outcome |-> "ok",
             ret |-> chunk_documents(<<[page_content |-> text,
                                        metadata |-> [source |-> "text"]]>>,
                                     p[1], p[2])])

ProcessDocument(file, source_name, p) ==
    Process("process_document", <<p, file, source_name>>,
            process_document(file, source_name, p[1], p[2]))

ProcessMultipleDocuments(file_paths, p) ==
    Process("process_multiple_documents", <<p, file_paths>>,
            process_multiple_documents(file_paths, p[1], p[2]))

---------------------------------------------------------------------------
(* app.py: process_uploaded_files, the handler of the upload button *)

\* DataProcessor(): chunk_size = 1000, chunk_overlap = 200
DefaultChunkSize == 1000
DefaultChunkOverlap == 200

\* st.session_state.documents_processed: False at the start of a session,
\* set once create has returned. The app never deletes the store, so this is
\* the store's own record of a completed create.
documents_processed == hist

\* tempfile.NamedTemporaryFile(suffix="." + name.split('.')[-1]) with the
\* bytes of the upload written to it
temp_file(uploaded_file) ==
    [path |-> [dir |-> "tmp", ext |-> uploaded_file.path.ext, stem |-> "tmp"],
     readable |-> uploaded_file.readable,
     pages |-> uploaded_file.pages]

\* what the upload button hands over: st.file_uploader(type=['pdf', 'txt'])
\* takes files of these types only, and the handler is called when at least
\* one file is chosen
Uploads ==
    {b \in Batches :
        b # <<>> /\ \A i \in DOMAIN b : b[i].path.ext \in {".pdf", ".txt"}}

\* doc_processor.process_document(tmp_path, uploaded_file.name) for each
\* file that can be uploaded
processed_upload ==
    [f \in Fixtures |->
        process_document(temp_file(f), Some(basename(f.path)),
                         DefaultChunkSize, DefaultChunkOverlap)]

\* the for loop over uploaded_files from file i on: the chunks gathered and
\* the messages shown, up to the end of the list or to the first exception
RECURSIVE upload_loop(_, _, _, _)
upload_loop(uploaded_files, i, all_chunks, shown) ==
    IF i > Len(uploaded_files)
    THEN [outcome |-> "ok", ret |-> all_chunks, shown |-> shown]
    ELSE LET name == basename(uploaded_files[i].path)
             chunks == processed_upload[uploaded_files[i]]
         IN IF chunks.outcome # "ok"
            THEN [outcome |-> chunks.outcome, ret |-> all_chunks, shown |-> shown]
            ELSE upload_loop(uploaded_files, i + 1, all_chunks \o chunks.ret,
                             Append(shown, <<"success", name, Len(chunks.ret)>>))

\* process_uploaded_files(uploaded_files).  embedFails: embedding raises in
\* create.  The handler never raises: its one `except Exception` around the
\* loop and the create shows the error.
ProcessUploadedFiles(uploaded_files, embedFails) ==
    /\ StoreCall
    /\ LET r == upload_loop(uploaded_files, 1, <<>>, <<>>)
           op == "process_uploaded_files"
           arg == <<uploaded_files, embedFails>>
       IN IF r.outcome # "ok"
          THEN /\ call' = Call(op, arg, "ok",
                               Append(r.shown, <<"error", r.outcome>>), <<>>)
               /\ UNCHANGED <<vector_store, documents, shared, hist, expected>>
          ELSE IF r.ret = <<>>
          THEN /\ call' = Call(op, arg, "ok", r.shown, <<>>)
               /\ UNCHANGED <<vector_store, documents, shared, hist, expected>>
          ELSE /\ documents' = r.ret
               /\ shared' = FALSE    \* all_chunks is dropped on return
               /\ IF embedFails
                  THEN /\ call' = Call(op, arg, "ok",
                                       Append(r.shown, <<"error", "EmbeddingError">>),
                                       <<>>)
                       /\ UNCHANGED <<vector_store, hist, expected>>
                  ELSE /\ vector_store' = Some(FAISS_from_documents(r.ret))
                       /\ hist' = TRUE
                       /\ expected' = Some(r.ret)
                       /\ call' = Call(op, arg, "ok",
                                       Append(r.shown, <<"created", Len(r.ret)>>),
                                       <<>>)
    /\ UNCHANGED <<disk, saved>>

---------------------------------------------------------------------------
(* RAGPipeline: evaluate_response_quality, batch_generate_responses,       *)
(* generate_streaming_response; Generator.stream                           *)

\* str.lower(); "C" is the one upper-case letter the responses use
str_lower(s) == [i \in DOMAIN s |-> IF s[i] = "C" THEN "c" ELSE s[i]]

\* `sub in s` of Python strings
contains(sub, s) == \E i \in 1..(Len(s) + 1) : Occurs(s, sub, i)

\* ["consult", "doctor", "healthcare", "medical advice"]
Phrases ==
    {<<"c", "o", "n", "s", "u", "l", "t">>,
     <<"d", "o", "c", "t", "o", "r">>,
     <<"h", "e", "a", "l", "t", "h", "c", "a", "r", "e">>,
     <<"m", "e", "d", "i", "c", "a", "l", " ", "a", "d", "v", "i", "c", "e">>}

\* sum(s for _, s in sources)
RECURSIVE sum_scores(_)
sum_scores(sources) ==
    IF sources = <<>> THEN 0 ELSE Head(sources).score + sum_scores(Tail(sources))

\* RAGPipeline.evaluate_response_quality(query, response, sources): the
\* metrics.  The mean is kept as the pair <<sum, count>>, the quality score
\* in hundredths: round(n * 0.2, 2) is n fifths.
evaluate_response_quality(response, sources) ==
    LET length == Len(response)
        used == Len(sources)
        mean == IF sources # <<>> THEN <<sum_scores(sources), used>> ELSE <<0, 1>>
        disclaimer == \E p \in Phrases : contains(p, str_lower(response))
        cites == \E i \in DOMAIN sources :
                    contains(MetaGet(metadata(sources[i].doc), "source", <<>>),
                             response)
        signals == <<length > 50, used >= 2, mean[1] > 70 * mean[2],
                     disclaimer, cites>>
    IN [response_length |-> length,
        num_sources_used |-> used,
        avg_source_relevance |-> mean,
        contains_disclaimer |-> disclaimer,
        cites_sources |-> cites,
        quality_score |->
            20 * Cardinality({i \in DOMAIN signals : signals[i]})]

\* responses: nothing or padding of 47 or 48 characters, then nothing, a
\* disclaimer word, the source name of the odd documents, or other text
Responses ==
    {pad \o word :
        pad \in {<<>>, Rep("x", 47), Rep("x", 48)},
        word \in {<<>>, <<"C", "o", "n", "s", "u", "l", "t">>,
                  <<"d", "o", "c">>, <<"y", "e", "s">>}}

\* relevance scores (hundredths) that are binary fractions, so that their
\* sums and means are the same in floating point as in exact arithmetic
QualityScores == {50, 75, 100}

SourceLists ==
    UNION {[1..n -> [doc : DocIds, score : QualityScores]] : n \in 0..MaxK}

EvaluateResponseQuality(q, response, sources) ==
    Process("evaluate_response_quality", <<q, response, sources>>,
            [outcome |-> "ok", ret |-> evaluate_response_quality(response, sources)])

MaxFragments == 3    \* most chunks the model streams for one answer

\* a stream that passes every chunk on
stream_all(chunks, n) ==
    [outcome |-> IF n < Len(chunks) THEN "StreamError" ELSE "ok",
     ret |-> SubSeq(chunks, 1, n)]

\* Generator.stream(query, context): what the consumer receives.  chunks:
\* the content of the chunks streaming_llm.stream produces; n: how many of
\* them arrive before the model's stream raises (all of them: it ends).
stream(chunks, n) ==
    [outcome |-> IF n < Len(chunks) THEN "StreamError" ELSE "ok",
     ret |-> SelectSeq(SubSeq(chunks, 1, n), LAMBDA c : c # "")]

Stream(chunks, n) == Process("stream", <<chunks, n>>, stream(chunks, n))

\* RAGPipeline.__init__ assigns generator, temperature and top_k and no
\* `retriever` (_load_retriever is `pass`): reading self.retriever raises
NoRetriever == "AttributeError: 'RAGPipeline' object has no attribute 'retriever'"

\* RAGPipeline.batch_generate_responses(queries, k): the list comprehension
\* evaluates self.retriever, outside any try, for the first query
BatchGenerateResponses(queries, k) ==
    /\ StoreCall
    /\ call' = IF queries = <<>>
               THEN Call("batch_generate_responses", <<queries, k>>, "ok", <<>>, <<>>)
               ELSE Call("batch_generate_responses", <<queries, k>>, NoRetriever,
                         <<>>, <<>>)
    /\ UNCHANGED storeState

\* RAGPipeline.generate_streaming_response(query, k), consumed to its end:
\* the first statement of the try reads self.retriever, and the handler
\* yields the error.  chunks, n: what the model would stream for the answer.
GenerateStreamingResponse(q, k, chunks, n) ==
    /\ StoreCall
    /\ call' = Call("generate_streaming_response", <<q, k, chunks, n>>, "ok",
                    <<<<"Error: ", NoRetriever>>>>, <<>>)
    /\ UNCHANGED storeState

---------------------------------------------------------------------------
(* Specifications *)

vars == <<storeVars, pipeVars>>

Init == StoreInit /\ PipelineInit

\* the life cycle of the store: build, persist, restore, delete, search.
\* The ranking a query gets is the subject of SpecRetrieval; here one query
\* shows whether a search is answered at all.
Next ==
    \/ \E a \in StoreListArgs, f \in BOOLEAN : create(a, f)
    \/ \E a \in StoreListArgs, f \in BOOLEAN : add_documents(a, f)
    \/ \E p \in SaveArgs : save(p)
    \/ \E p \in LoadArgs : load(p)
    \/ delete
    \/ VectorStoreNew
    \/ \E k \in 0..MaxK, f \in BOOLEAN : SimilaritySearch("q1", k, f)

Spec == Init /\ [][Next]_vars

\* retrieval over every index the store can build
NextRetrieval ==
    \/ \E a \in ListArgs : create(a, FALSE)
    \/ \E a \in ListArgs : add_documents(a, FALSE)
    \/ delete
    \/ \E q \in Queries, k \in 1..MaxK, t \in Thresholds, f \in BOOLEAN :
          SimilaritySearchWithThreshold(q, k, t, f)
    \/ \E q \in Queries, k \in 0..MaxK, m \in ContextLengths, f \in BOOLEAN :
          GetRelevantContext(q, k, m, f)

SpecRetrieval == Init /\ [][NextRetrieval]_vars

\* question answering over a store that is built, extended and deleted
NextPipeline ==
    \/ \E a \in ListArgs : create(a, FALSE)
    \/ delete
    \/ \E t \in TempArgs, k \in KArgs : update_settings(t, k)
    \/ \E q \in Queries, t \in TempArgs : GenerateResponse_Call(q, t)
    \/ \E point \in {"none", "retriever_init", "similarity_search"} :
          GenerateResponse_Retrieve(point)
    \/ \E point \in {"none", "llm_load", "llm_invoke"}, answer \in Answers :
          GenerateResponse_Generate(point, answer)

SpecPipeline == Init /\ [][NextPipeline]_vars

\* persistence when the chunk-list file cannot be written
NextPersist ==
    \/ \E a \in StoreListArgs : create(a, FALSE)
    \/ \E a \in StoreListArgs : add_documents(a, FALSE)
    \/ \E p \in SaveArgs : save(p)
    \/ \E p \in SaveArgs : save_dump_fails(p)
    \/ \E p \in LoadArgs : load(p)
    \/ delete
    \/ VectorStoreNew

SpecPersist == Init /\ [][NextPersist]_vars

\* chunking and processing of files
NextChunker ==
    \/ \E text \in Texts, p \in ProcessorArgs : ChunkDocuments(text, p)
    \/ \E file \in Files, n \in {None, Some("upload")}, p \in ProcessorArgs :
          ProcessDocument(file, n, p)
    \/ \E b \in Batches, p \in ProcessorArgs : ProcessMultipleDocuments(b, p)

SpecChunker == Init /\ [][NextChunker]_vars

\* a session of the app: batches of files are uploaded one after the other
NextUpload ==
    \E b \in Uploads, f \in BOOLEAN : ProcessUploadedFiles(b, f)

SpecUpload == Init /\ [][NextUpload]_vars

\* the operations of the pipeline besides generate_response
NextAssistant ==
    \/ \E r \in Responses, s \in SourceLists :
          EvaluateResponseQuality("q1", r, s)
    \/ \E m \in 0..MaxFragments, n \in 0..MaxFragments :
          \E chunks \in [1..m -> {"", "a", "b"}] : n <= m /\ Stream(chunks, n)
    \/ \E a \in StoreListArgs : create(a, FALSE)
    \/ \E queries \in ListValues(Queries), k \in 0..MaxK :
          BatchGenerateResponses(queries, k)
    \/ \E q \in Queries, k \in 0..MaxK, n \in 0..3 :
          GenerateStreamingResponse(q, k, <<"a", "", "b">>, n)

SpecAssistant == Init /\ [][NextAssistant]_vars

---------------------------------------------------------------------------
(* Properties *)

\* an outcome that is an exception raised to the caller
Raises(outcome) == outcome \notin {"ok", "no vector store found"}

\* C1: the string get_relevant_context returns is never longer than
\* max_context_length, separators and truncation marker included.
Claim_C1_ContextWithinBudget ==
    (call.op = "get_relevant_context" /\ call.outcome = "ok")
        => Len(call.ret) <= call.arg[3]

\* a generate_response call has returned to its caller
Returned == pc = "idle" /\ call.op = "generate_response" /\ ~IsNone(result)

\* C2: generate_response never raises: it returns a dictionary with answer,
\* sources and metadata, and when an exception was thrown inside the call
\* sources is empty and metadata holds the error message and total_time.
Thm_C2_NeverRaises ==
    /\ (pc = "idle" /\ call.op = "generate_response") => ~IsNone(result)
    /\ Returned =>
         LET r == Val(result) IN
         /\ {"answer", "sources", "metadata"} \subseteq DOMAIN r
         /\ ~IsNone(frame.exc) =>
              /\ r.sources = <<>>
              /\ {"error", "total_time"} \subseteq DOMAIN r.metadata
              /\ r.metadata.error = Val(frame.exc)

Witness_C2_UninitializedCaught ==
    /\ Returned
    /\ IsNone(vector_store)
    /\ frame.exc = Some(NotInitialized)
    /\ "metadata" \in DOMAIN Val(result)
    /\ "error" \in DOMAIN Val(result).metadata
    /\ Val(result).metadata.error = NotInitialized

\* a generate_response call whose retrieval returned an empty list
ZeroRetrieved ==
    /\ call.op = "generate_response"
    /\ pc # "retrieving"
    /\ frame.retrievals # <<>>
    /\ IsNone(frame.exc)
    /\ frame.retrieved = <<>>

\* C3: when retrieval returns nothing, generate_response returns the canned
\* answer with no sources and retrieved_docs = 0, and neither Generator.update
\* nor Generator.generate is invoked during the call.
Thm_C3_NoResultsSkipsGeneration ==
    ZeroRetrieved =>
        /\ pc = "idle"
        /\ ~IsNone(result)
        /\ Val(result).answer = Canned
        /\ Val(result).sources = <<>>
        /\ Val(result).metadata.retrieved_docs = 0
        /\ frame.generations = <<>>
        /\ frame.updates = <<>>

Witness_C3_NoResults ==
    /\ ZeroRetrieved
    /\ ~IsNone(vector_store)
    /\ pc = "idle"
    /\ ~IsNone(result)
    /\ Val(result).answer = Canned

\* the candidates the index ranks for the last thresholded search
Candidates == similarity_search_with_score(Val(vector_store), call.arg[1],
                                           call.arg[2] + call.arg[2])

\* positions of the candidates whose score is within the threshold
Good == {j \in DOMAIN Candidates : Candidates[j].score <= call.arg[3]}

\* C4: similarity_search_with_threshold(query, k, t) asks the index for 2k
\* candidates and returns the first (at most k) of them whose score is <= t,
\* in ranking order.
Thm_C4_ThresholdFilter ==
    (call.op = "similarity_search_with_threshold" /\ call.outcome = "ok") =>
        /\ call.indexCalls = <<call.arg[2] + call.arg[2]>>
        /\ \A i \in DOMAIN call.ret : call.ret[i].score <= call.arg[3]
        /\ Len(call.ret) <= call.arg[2]
        /\ Len(call.ret) = Min(call.arg[2], Cardinality(Good))
        /\ \A i \in DOMAIN call.ret :
              \E j \in Good : /\ Cardinality({h \in Good : h < j}) = i - 1
                              /\ call.ret[i] = Candidates[j]

Witness_C4_FilteredAndCut ==
    /\ call.op = "similarity_search_with_threshold"
    /\ call.outcome = "ok"
    /\ call.ret # <<>>
    /\ Cardinality(Good) < Len(Candidates)

\* C5: similarity_search raises the not-initialized error without querying
\* an index whenever the index is uninitialized (no create, add or load
\* succeeded since construction or the last delete), and succeeds only if
\* one of them did.
Thm_C5_SearchNeedsIndex ==
    call.op = "similarity_search" =>
        /\ (IsNone(vector_store) \/ ~hist) =>
              call.outcome = NotInitialized /\ call.indexCalls = <<>>
        /\ call.outcome = "ok" => hist

Witness_C5_NotInitialized ==
    /\ call.op = "similarity_search"
    /\ call.outcome = NotInitialized
    /\ ~hist
    /\ documents # <<>>

\* C6: create with an empty list fails with the empty-input error and
\* leaves index and chunk list as they were.
Thm_C6_EmptyCreateRejected ==
    [][(call'.op = "create" /\ call'.arg.kind = "new" /\ call'.arg.elems = <<>>)
        => /\ call'.outcome = EmptyInput
           /\ UNCHANGED <<vector_store, documents, shared>>
           /\ get_document_count' = get_document_count]_vars

Witness_C6_IndexKept ==
    /\ call.op = "create"
    /\ call.outcome = EmptyInput
    /\ ~IsNone(vector_store)
    /\ get_document_count > 0

\* C7: get_document_count() equals the number of vectors the index holds,
\* 0 when there is no index.
Claim_C7_CountIsIndexSize == get_document_count = IndexSize

\* C8: the chunk list is the chunks of the most recent create followed by
\* the chunks of every later add_documents, in call order.
Claim_C8_ChunkListIsCreatePlusAdds ==
    ~IsNone(expected) => documents = Val(expected)

\* a store as its constructor leaves it
Fresh == IsNone(vector_store) /\ documents = <<>> /\ ~shared

\* C9: loading a saved path into a fresh store gives the chunk list, and so
\* the get_document_count(), that the saved store had.
Thm_C9_SaveLoadRoundTrip ==
    [][(/\ call'.op = "load"
        /\ Fresh
        /\ ~IsNone(saved[PathOr(call'.arg)]))
        => /\ call'.outcome = "ok"
           /\ documents' = Val(saved[PathOr(call'.arg)])
           /\ get_document_count' = Len(Val(saved[PathOr(call'.arg)]))]_vars

Witness_C9_Restored ==
    /\ call.op = "load"
    /\ call.outcome = "ok"
    /\ ~shared
    /\ ~IsNone(saved[PathOr(call.arg)])
    /\ documents = Val(saved[PathOr(call.arg)])
    /\ Len(documents) = MaxDocs

\* C10: load of a path that does not exist does not raise and leaves index
\* and chunk list as they were.
Thm_C10_LoadMissingIsNoOp ==
    [][(call'.op = "load" /\ ~path_exists(PathOr(call'.arg)))
        => /\ ~Raises(call'.outcome)
           /\ UNCHANGED <<vector_store, documents, shared>>
           /\ get_document_count' = get_document_count]_vars

Witness_C10_IndexKept ==
    /\ call.op = "load"
    /\ call.outcome = "no vector store found"
    /\ ~IsNone(vector_store)
    /\ get_document_count > 0

\* a saved directory whose index and chunk list agree
Consistent(dir) == ~IsNone(dir.docs) /\ Len(Val(dir.docs)) = Len(dir.index)

InconsistentState == "InconsistentPersistedStateError"

\* C11: load of a directory whose chunk-list file is missing, or holds a
\* different number of chunks than the index, fails with the inconsistency
\* error and leaves index and chunk list as they were.
Claim_C11_InconsistentLoadFails ==
    [][(/\ call'.op = "load"
        /\ path_exists(PathOr(call'.arg))
        /\ ~Consistent(Val(disk[PathOr(call'.arg)])))
        => /\ call'.outcome = InconsistentState
           /\ UNCHANGED <<vector_store, documents, shared>>]_vars

\* C12: delete succeeds from every state and leaves no index, a count of 0
\* and no directory at the default path; a delete right after a delete
\* changes nothing.
Thm_C12_DeleteIdempotent ==
    [][call'.op = "delete"
        => /\ call'.outcome = "ok"
           /\ IsNone(vector_store')
           /\ get_document_count' = 0
           /\ IsNone(disk'[delete_path])
           /\ call.op = "delete" =>
                 UNCHANGED <<vector_store, documents, shared, disk>>]_vars

Witness_C12_Deleted ==
    /\ call.op = "delete"
    /\ IsNone(vector_store)
    /\ get_document_count = 0
    /\ ~path_exists(delete_path)

\* the persisted settings: the pipeline's own and the generator's
Settings == <<temperature, top_k, generator.model_name, generator.temperature,
              generator.max_tokens>>

\* C13: no step of a generate_response call that was given a temperature
\* changes the persisted settings, so they are after the call what they were
\* before it.
Claim_C13_OverrideKeepsSettings ==
    [][(call'.op = "generate_response" /\ ~IsNone(frame'.temperature))
        => Settings' = Settings]_vars

\* C14: a generate_response call made without a temperature retrieves with
\* the k and invokes a model client built with the temperature that the
\* last update_settings left in the pipeline.
Claim_C14_NoStaleSettings ==
    (call.op = "generate_response" /\ IsNone(frame.temperature)) =>
        /\ \A i \in DOMAIN frame.retrievals : frame.retrievals[i] = top_k
        /\ \A i \in DOMAIN frame.generations :
              frame.generations[i].temperature = temperature

\* C15: update_settings changes exactly the fields handed in with a value
\* that differs from the current one, leaves everything else alone, and its
\* change list names each changed field with its new value and nothing else.
Thm_C15_UpdateSettingsFrame ==
    [][call'.op = "update_settings" =>
        LET t == call'.arg[1]
            k == call'.arg[2]
        IN /\ temperature' # temperature <=> (~IsNone(t) /\ Val(t) # temperature)
           /\ top_k' # top_k <=> (~IsNone(k) /\ Val(k) # top_k)
           /\ temperature' # temperature => temperature' = Val(t)
           /\ top_k' # top_k => top_k' = Val(k)
           /\ generator' = generator
           /\ UNCHANGED <<vector_store, documents, disk>>
           /\ \A v \in Temps :
                 (\E i \in DOMAIN log' : log'[i] = <<"temperature", v>>)
                     <=> (temperature' # temperature /\ v = temperature')
           /\ \A v \in 0..MaxK :
                 (\E i \in DOMAIN log' : log'[i] = <<"retrieval_k", v>>)
                     <=> (top_k' # top_k /\ v = top_k')
           /\ Len(log') = (IF temperature' # temperature THEN 1 ELSE 0)
                           + (IF top_k' # top_k THEN 1 ELSE 0)]_vars

Witness_C15_OneOfTwoChanged ==
    /\ call.op = "update_settings"
    /\ ~IsNone(call.arg[1])
    /\ ~IsNone(call.arg[2])
    /\ Len(log) = 1
    /\ log[1] = <<"retrieval_k", top_k>>
    /\ temperature = Val(call.arg[1])

\* C16: the settings stay in their ranges: retrieval_k >= 1, temperature in
\* [0, 1], max_tokens > 0.
Claim_C16_SettingsInRange ==
    /\ top_k >= 1
    /\ 0 <= temperature /\ temperature <= 100
    /\ 0 <= generator.temperature /\ generator.temperature <= 100
    /\ generator.max_tokens > 0

---------------------------------------------------------------------------
(* Properties of the document processor *)

\* the chunk_id values of a list of chunks, in list order
chunk_ids(chunks) == [i \in DOMAIN chunks |-> chunks[i].metadata.chunk_id]

\* 0, 1, ..., n-1
Numbering(n) == [i \in 1..n |-> i - 1]

\* the numbering of each file of a batch, one file after the other; a file
\* that fails has no chunks
RECURSIVE BatchNumbering(_, _, _)
BatchNumbering(file_paths, chunk_size, chunk_overlap) ==
    IF file_paths = <<>> THEN <<>>
    ELSE Numbering(Len(process_document(Head(file_paths), None,
                                        chunk_size, chunk_overlap).ret))
         \o BatchNumbering(Tail(file_paths), chunk_size, chunk_overlap)

\* every chunk records the length of its own text
SizesRecorded(chunks) ==
    \A i \in DOMAIN chunks :
        chunks[i].metadata.chunk_size = Len(chunks[i].page_content)

\* C17: the chunks process_document returns are numbered 0, 1, ..., n-1 in
\* list order, across the pages of the file; every chunk's chunk_size is the
\* length of its text; in process_multiple_documents the numbering starts
\* again at 0 with each file.
Thm_C17_ChunkNumbering ==
    /\ (call.op = "process_document" /\ call.outcome = "ok") =>
          /\ chunk_ids(call.ret) = Numbering(Len(call.ret))
          /\ SizesRecorded(call.ret)
    /\ call.op = "process_multiple_documents" =>
          /\ chunk_ids(call.ret) =
                BatchNumbering(call.arg[2], call.arg[1][1], call.arg[1][2])
          /\ SizesRecorded(call.ret)

\* a batch whose first file has two pages with chunks on both and whose
\* second file has chunks too
Witness_C17_PagesAndRestart ==
    /\ call.op = "process_multiple_documents"
    /\ \E i \in DOMAIN call.ret :
          /\ i + 1 \in DOMAIN call.ret
          /\ call.ret[i].metadata.page = 0
          /\ call.ret[i + 1].metadata.page = 1
          /\ call.ret[i + 1].metadata.chunk_id = call.ret[i].metadata.chunk_id + 1
    /\ \E i \in DOMAIN call.ret :
          /\ i > 1
          /\ call.ret[i].metadata.chunk_id = 0
          /\ call.ret[i - 1].metadata.chunk_id > 0
          /\ call.ret[i].metadata.file_path # call.ret[i - 1].metadata.file_path

\* C18: every chunk chunk_documents produces is at most chunk_size long,
\* whatever the text, with the separators paragraph break, line break, space
\* and single character.
Thm_C18_ChunkSizeBound ==
    call.op \in {"chunk_documents", "process_document",
                 "process_multiple_documents"} =>
        \A i \in DOMAIN call.ret :
            Len(call.ret[i].page_content) <= call.arg[1][1]

\* a text without any break or space that is longer than chunk_size and
\* comes back in several chunks
Witness_C18_SplitBetweenCharacters ==
    /\ call.op = "chunk_documents"
    /\ Len(call.arg[2]) > call.arg[1][1]
    /\ \A i \in DOMAIN call.arg[2] : call.arg[2][i] = "a"
    /\ Len(call.ret) >= 2
    /\ \E i \in DOMAIN call.ret : Len(call.ret[i].page_content) = call.arg[1][1]

\* the chunks of the files of a batch that process_document can process, in
\* the order of the batch
RECURSIVE SucceededChunks(_, _, _)
SucceededChunks(file_paths, chunk_size, chunk_overlap) ==
    IF file_paths = <<>> THEN <<>>
    ELSE LET r == process_document(Head(file_paths), None,
                                   chunk_size, chunk_overlap)
         IN (IF r.outcome = "ok" THEN r.ret ELSE <<>>)
            \o SucceededChunks(Tail(file_paths), chunk_size, chunk_overlap)

\* C19: process_multiple_documents never raises because one file fails: it
\* returns, in the order of the batch, the chunks of exactly the files whose
\* processing succeeded, those after a failing file included.
Thm_C19_BatchIsolatesFailures ==
    call.op = "process_multiple_documents" =>
        /\ call.outcome = "ok"
        /\ call.ret =
              SucceededChunks(call.arg[2], call.arg[1][1], call.arg[1][2])

\* a batch whose first file fails and whose second file gives the chunks
\* returned
Witness_C19_FailureThenSuccess ==
    /\ call.op = "process_multiple_documents"
    /\ Len(call.arg[2]) = 2
    /\ process_document(call.arg[2][1], None,
                        call.arg[1][1], call.arg[1][2]).outcome # "ok"
    /\ call.outcome = "ok"
    /\ call.ret # <<>>
    /\ \A i \in DOMAIN call.ret :
          call.ret[i].metadata.file_path = call.arg[2][2].path

---------------------------------------------------------------------------
(* Properties of the upload handler *)

\* C20: when a file of an uploaded batch fails to process, the other files
\* of the batch are still processed and their chunks are indexed: after a
\* call in which embedding does not fail, every chunk of every file of the
\* batch that process_document can process is in the index.
Claim_C20_UploadIsolatesFailures ==
    (call.op = "process_uploaded_files" /\ ~call.arg[2]) =>
        \A j \in DOMAIN call.arg[1] :
            LET r == processed_upload[call.arg[1][j]]
            IN r.outcome = "ok" =>
                  \A i \in DOMAIN r.ret :
                      \E n \in 1..IndexSize : Val(vector_store)[n] = r.ret[i]

---------------------------------------------------------------------------
(* Properties of quality evaluation, streaming and batch answering *)

\* C21: quality_score is 0.2 times the number of true signals among:
\* response longer than 50, at least 2 sources, mean source score above 0.7,
\* a disclaimer phrase present, a source name echoed in the response; hence
\* it is one of 0, 0.2, 0.4, 0.6, 0.8, 1.0.
Claim_C21_QualityScore ==
    call.op = "evaluate_response_quality" =>
        LET response == call.arg[2]
            sources == call.arg[3]
            signals ==
                <<Len(response) > 50,
                  Len(sources) >= 2,
                  sources # <<>> /\ sum_scores(sources) > 70 * Len(sources),
                  \E p \in Phrases : contains(p, str_lower(response)),
                  \E i \in DOMAIN sources :
                      /\ "source" \in DOMAIN metadata(sources[i].doc)
                      /\ contains(metadata(sources[i].doc).source, response)>>
        IN /\ call.ret.quality_score =
                 20 * Cardinality({i \in DOMAIN signals : signals[i]})
           /\ call.ret.quality_score \in {0, 20, 40, 60, 80, 100}

\* C22: Generator.stream yields exactly the model's fragments with non-empty
\* content, in the model's order, and ends when the model's stream ends:
\* none dropped, duplicated or reordered, and no empty fragment.
Thm_C22_StreamYieldsNonEmpty ==
    call.op = "stream" =>
        LET chunks == call.arg[1]
            arrived == {i \in 1..call.arg[2] : chunks[i] # ""}
        IN /\ Len(call.ret) = Cardinality(arrived)
           /\ \A i \in arrived :
                 call.ret[Cardinality({j \in arrived : j <= i})] = chunks[i]
           /\ \A i \in DOMAIN call.ret : call.ret[i] # ""
           /\ call.outcome = "ok" <=> call.arg[2] = Len(chunks)

\* a stream that ends normally, with an empty fragment between two others
Witness_C22_EmptySuppressed ==
    /\ call.op = "stream"
    /\ call.outcome = "ok"
    /\ call.arg[1] = <<"a", "", "b">>
    /\ call.ret = <<"a", "b">>

\* C23: batch_generate_responses returns, without raising, one result with
\* an answer per query, in the order of the queries, each retrieved from the
\* store with the given k.
Claim_C23_BatchOneResultPerQuery ==
    call.op = "batch_generate_responses" =>
        /\ call.outcome = "ok"
        /\ Len(call.ret) = Len(call.arg[1])
        /\ \A i \in DOMAIN call.ret : "answer" \in DOMAIN call.ret[i]

\* C24: generate_streaming_response never raises and yields the canned
\* message alone when retrieval returns nothing, the generator's fragments in
\* order when retrieval returns a result and generation succeeds, and the
\* fragments so far followed by one error fragment on an exception.
Claim_C24_StreamingResponse ==
    call.op = "generate_streaming_response" =>
        LET s == similarity_search(call.arg[1], call.arg[2], FALSE)
            g == stream(call.arg[3], call.arg[4])
        IN /\ call.outcome = "ok"
           /\ (s.outcome = "ok" /\ s.ret = <<>>) => call.ret = <<Canned>>
           /\ (s.outcome = "ok" /\ s.ret # <<>> /\ g.outcome = "ok") =>
                 call.ret = g.ret
           /\ (s.outcome = "ok" /\ s.ret # <<>> /\ g.outcome # "ok") =>
                 /\ Len(call.ret) = Len(g.ret) + 1
                 /\ SubSeq(call.ret, 1, Len(g.ret)) = g.ret
           /\ s.outcome # "ok" => Len(call.ret) = 1

---------------------------------------------------------------------------
(* Properties of the store's ownership of its chunks and of failing builds *)

\* C25: chunks are copied into the store, not referenced: the list the
\* caller handed to create is its own, so that nothing the caller does to it
\* later shows in the store and add_documents does not modify it.  While
\* `shared` holds, the caller's list and the store's chunk list are one
\* object, and the elements of the one are the elements of the other.
Claim_C25_ChunksCopied ==
    [][/\ ~shared'
       /\ (shared /\ call'.op = "add_documents") => documents' = documents]_vars

\* C30: create and add_documents are atomic with respect to failure: when
\* embedding or index construction raises, index and chunk list are both as
\* they were before the call.
Claim_C30_FailedBuildChangesNothing ==
    [][(/\ call'.op \in {"create", "add_documents"}
        /\ call'.outcome = "EmbeddingError")
           => UNCHANGED <<vector_store, documents>>]_vars

---------------------------------------------------------------------------
(* Properties of the course of a generate_response call *)

---------------------------------------------------------------------------
(* Properties of get_relevant_context                                      *)

\* the blocks of the ranked results of the last get_relevant_context call
RankedBlocks ==
    LET results == similarity_search(call.arg[1], call.arg[2], FALSE).ret
    IN  [i \in DOMAIN results |-> Blocks[results[i].doc]]

\* characters taken by the first j blocks
UsedBy(j) == Len(join(<<>>, SubSeq(RankedBlocks, 1, j)))

\* the number of leading blocks that fit whole in the budget
WholeBlocks ==
    CHOOSE j \in 0..Len(RankedBlocks) :
        /\ UsedBy(j) <= call.arg[3]
        /\ j < Len(RankedBlocks) => UsedBy(j + 1) > call.arg[3]

\* C27: get_relevant_context emits the labeled blocks in ranked order and
\* stops at the first block that does not fit: every block before it is whole,
\* the non-fitting block is included cut to the remaining budget with a "..."
\* marker only if more than 100 characters of budget remain and is otherwise
\* omitted, and no block ranked after it is included.
Thm_C27_ContextStopsAtFirstMisfit ==
    (call.op = "get_relevant_context" /\ call.outcome = "ok") =>
        LET n == WholeBlocks
            left == call.arg[3] - UsedBy(n)
            partial ==
                IF n < Len(RankedBlocks) /\ left > 100
                THEN << SubSeq(RankedBlocks[n + 1], 1, left - 3) \o <<".", ".", ".">> >>
                ELSE <<>>
        IN  call.ret = join(<<"\n">>, SubSeq(RankedBlocks, 1, n) \o partial)

\* a call whose first misfit is included truncated
Truncated_C27 ==
    /\ call.op = "get_relevant_context" /\ call.outcome = "ok"
    /\ WholeBlocks < Len(RankedBlocks)
    /\ call.arg[3] - UsedBy(WholeBlocks) > 100

\* a call that stops at a misfit although a block ranked after it would
\* still fit in the budget that remains
Witness_C27_LaterBlockLeftOut ==
    /\ call.op = "get_relevant_context" /\ call.outcome = "ok"
    /\ \E j \in (WholeBlocks + 2)..Len(RankedBlocks) :
          UsedBy(WholeBlocks) + Len(RankedBlocks[j]) <= call.arg[3]

---------------------------------------------------------------------------
(* Properties of the temperature of a generate_response call               *)

\* C28: when generate_response is given a per-call temperature t (any value
\* in [0,1], 0 included), the language model of that call is invoked with
\* temperature t, whatever temperatures the pipeline and the generator hold.
Claim_C28_PerCallTemperature ==
    (call.op = "generate_response" /\ ~IsNone(frame.temperature)) =>
        \A i \in DOMAIN frame.generations :
            frame.generations[i].temperature = Val(frame.temperature)

\* C29: in every successful generate_response result metadata.temperature is
\* the temperature the language model was configured with when it produced
\* the answer, and metadata.model the model that produced it.
Claim_C29_MetadataReportsUsedSettings ==
    (Returned /\ "context" \in DOMAIN Val(result)) =>
        /\ Len(frame.generations) = 1
        /\ Val(result).metadata.temperature = frame.generations[1].temperature
        /\ Val(result).metadata.model = frame.generations[1].model

============================================================================
